---------------------------- MODULE Spec2Model ----------------------------
(***************************************************************************)
(* Semantic accessibility extension: the component model (UIComponent,     *)
(* Button, InputField, NavigationRegion), the tree builder (SemanticTree)  *)
(* and the reading-order service (ScreenReaderService).                    *)
(*                                                                         *)
(* JavaScript values are tagged records; a string is a tuple of one-       *)
(* character strings so that toLowerCase() and includes() are computed.    *)
(* A call that can throw returns a record with a field threw.              *)
(***************************************************************************)
EXTENDS Integers, Sequences, FiniteSets, TLC

\* The property names of the records below, in the one order in which
\* every record lists its fields.
FieldNames ==
  DOMAIN [t |-> 0, s |-> 0, n |-> 0, b |-> 0, items |-> 0, cls |-> 0,
          kind |-> 0, id |-> 0, name |-> 0, label |-> 0, role |-> 0,
          children |-> 0, state |-> 0, inputType |-> 0, focusable |-> 0,
          disabled |-> 0, required |-> 0, expanded |-> 0, nodeId |-> 0,
          text |-> 0, threw |-> 0, message |-> 0, value |-> 0,
          component |-> 0, roots |-> 0, errors |-> 0, log |-> 0, ev |-> 0,
          at |-> 0, entry |-> 0, count |-> 0, hint |-> 0,
          rule |-> 0, passed |-> 0, failed |-> 0, op |-> 0, owner |-> 0,
          arg |-> 0, alias |-> 0, document |-> 0]

VARIABLES
  roots,      \* SemanticTree._roots
  errors,     \* SemanticTree._errors
  nodes,      \* the argument of the build() call (pending or last made)
  outcome,    \* how the last build() ended: "none", "returned", "threw"
  prior,      \* what the tree held when the last build() was called
  log,        \* what the last build() did, node by node
  passRoots,  \* the argument of the analysis pass
  reading,    \* what generateReadingOrder returned
  passOutcome,\* how the generateReadingOrder call ended
  order,      \* what buildTabOrder returned
  tabOutcome, \* how the buildTabOrder call ended
  audit,      \* what runAudit returned
  auditOutcome,\* how the runAudit call ended
  heap,       \* the components that exist, each at its own place
  snap,       \* an array that getChildren() returned
  call,       \* the last call on a component and how it ended
  calls,      \* how many calls on components were made
  pc,         \* where the click handler of the popup is
  btnDisabled,\* auditBtn.disabled
  statusText, \* statusEl.textContent
  resultsHidden, \* resultsEl.hidden
  resultsHTML,\* what resultsEl holds
  response,   \* what the Figma API answered to the pending request
  trace       \* the steps the handler has completed since the click

buildVars == <<roots, errors, nodes, outcome, prior, log>>
passVars == <<passRoots, reading, passOutcome, order, tabOutcome, audit,
              auditOutcome>>

compVars == <<heap, snap, call, calls>>

popVars == <<pc, btnDisabled, statusText, resultsHidden, resultsHTML, response,
             trace>>

vars == <<buildVars, passVars, compVars, popVars>>

----------------------------------------------------------------------------
(* JavaScript values *)

Undefined == [t |-> "undefined"]
Null      == [t |-> "null"]
Str(s)    == [t |-> "string", s |-> s]
Num(n)    == [t |-> "number", n |-> n]
Bool(b)   == [t |-> "boolean", b |-> b]
Arr(xs)   == [t |-> "array", items |-> xs]

\* A raw Figma node { id, name, children }; an absent property reads as
\* undefined.
RawNode(id, nm, children) ==
  [t |-> "object", id |-> id, name |-> nm, children |-> children]

\* !v
Falsy(v) ==
  \/ v.t = "undefined"
  \/ v.t = "null"
  \/ v.t = "string" /\ v.s = <<>>
  \/ v.t = "number" /\ v.n = 0
  \/ v.t = "boolean" /\ ~v.b

\* v == null (null or undefined), the test of ?. and ??
Nullish(v) == v.t = "undefined" \/ v.t = "null"

----------------------------------------------------------------------------
(* Strings *)

UpperLetters ==
  <<"A","B","C","D","E","F","G","H","I","J","K","L","M",
    "N","O","P","Q","R","S","T","U","V","W","X","Y","Z">>
LowerLetters ==
  <<"a","b","c","d","e","f","g","h","i","j","k","l","m",
    "n","o","p","q","r","s","t","u","v","w","x","y","z">>

UpperSet == {UpperLetters[i] : i \in DOMAIN UpperLetters}

LowerChar(c) ==
  IF c \in UpperSet
    THEN LowerLetters[CHOOSE i \in DOMAIN UpperLetters : UpperLetters[i] = c]
    ELSE c

\* String.prototype.toLowerCase
ToLowerCase(s) == [i \in 1..Len(s) |-> LowerChar(s[i])]

\* String.prototype.includes
Includes(s, sub) ==
  \E i \in 0..(Len(s) - Len(sub)) : \A j \in 1..Len(sub) : s[i + j] = sub[j]

K_button      == <<"b","u","t","t","o","n">>
K_input       == <<"i","n","p","u","t">>
K_textbox     == <<"t","e","x","t","b","o","x">>
K_nav         == <<"n","a","v">>
K_navigation  == <<"n","a","v","i","g","a","t","i","o","n">>
K_constructor == <<"c","o","n","s","t","r","u","c","t","o","r">>
K_proto       == <<"_","_","p","r","o","t","o","_","_">>
S_unknown     == <<"u","n","k","n","o","w","n">>
S_text        == <<"t","e","x","t">>

----------------------------------------------------------------------------
(* UIComponent and its subclasses *)

Threw(msg) == [threw |-> TRUE, message |-> msg]
Returned(v) == [threw |-> FALSE, value |-> v]

\* A faulty variant of the constructor that accepts an empty id.
UIComponentNewAnyId(cls, id, label, role) ==
  IF cls = "UIComponent"
    THEN Threw("UIComponent is abstract and cannot be instantiated directly.")
  ELSE IF Falsy(label) THEN Threw("UIComponent requires a non-empty label.")
  ELSE IF Falsy(role) THEN Threw("UIComponent requires a non-empty role.")
  ELSE Returned([t |-> "component", cls |-> cls, id |-> id, label |-> label,
                 role |-> role, children |-> <<>>, state |-> <<>>])

\* new Cls(id, label, role) as far as UIComponent's constructor goes.
UIComponentNew(cls, id, label, role) ==
  IF cls = "UIComponent"
    THEN Threw("UIComponent is abstract and cannot be instantiated directly.")
  ELSE IF Falsy(id) THEN Threw("UIComponent requires a non-empty id.")
  ELSE IF Falsy(label) THEN Threw("UIComponent requires a non-empty label.")
  ELSE IF Falsy(role) THEN Threw("UIComponent requires a non-empty role.")
  ELSE Returned([t |-> "component", cls |-> cls, id |-> id, label |-> label,
                 role |-> role, children |-> <<>>, state |-> <<>>])

\* new Button(id, label): this._state = { focusable: true, disabled: false }
ButtonNew(id, label) ==
  LET super == UIComponentNew("Button", id, label, Str(K_button)) IN
  IF super.threw THEN super
  ELSE Returned([super.value EXCEPT
                   !.state = [focusable |-> Bool(TRUE), disabled |-> Bool(FALSE)]])

\* new InputField(id, label): inputType "text",
\* this._state = { focusable: true, required: false }
InputFieldNew(id, label) ==
  LET super == UIComponentNew("InputField", id, label, Str(K_textbox)) IN
  IF super.threw THEN super
  ELSE Returned([t |-> "component", cls |-> "InputField", id |-> super.value.id,
                 label |-> super.value.label, role |-> super.value.role,
                 children |-> <<>>,
                 state |-> [focusable |-> Bool(TRUE), required |-> Bool(FALSE)],
                 inputType |-> Str(S_text)])

\* new NavigationRegion(id, label): this._state = { expanded: true }
NavigationRegionNew(id, label) ==
  LET super == UIComponentNew("NavigationRegion", id, label, Str(K_navigation)) IN
  IF super.threw THEN super
  ELSE Returned([super.value EXCEPT !.state = [expanded |-> Bool(TRUE)]])

\* A subclass of UIComponent that overrides neither describe() nor
\* navigate(): both keep the abstract bodies, which throw.
S_group == <<"g","r","o","u","p">>
CustomNew(id, label) == UIComponentNew("Custom", id, label, Str(S_group))

\* Faulty variants: an addChild() that takes any value, a setLabel() that
\* takes any label.
AddChildAny(receiver, child) ==
  IF receiver.t # "component"
    THEN Threw("component.addChild is not a function")
  ELSE Returned([receiver EXCEPT !.children = Append(@, child)])
SetLabelAny(c, label) == Returned([c EXCEPT !.label = label])

\* receiver.addChild(child); the receiver may be any value.
AddChild(receiver, child) ==
  IF receiver.t # "component"
    THEN Threw("component.addChild is not a function")
  ELSE IF child.t # "component"
    THEN Threw("Child must be a UIComponent instance.")
  ELSE Returned([receiver EXCEPT !.children = Append(@, child)])

\* getState(key)
GetState(c, key) == IF key \in DOMAIN c.state THEN c.state[key] ELSE Undefined

\* setLabel(label)
SetLabel(c, label) ==
  IF Falsy(label) THEN Threw("Label cannot be empty.")
  ELSE Returned([c EXCEPT !.label = label])

\* setState(key, val): this._state[key] = val
SetState(c, key, val) ==
  [c EXCEPT !.state = [k \in (DOMAIN @) \cup {key} |->
                         IF k = key THEN val ELSE @[k]]]

\* component._label = label, the write of the audit test
ForceLabel(c, label) == [c EXCEPT !.label = label]

\* component.navigate() on any value: the hint as the parts its template is
\* filled with. Custom is the one class that keeps UIComponent's body.
Navigate(c) ==
  IF Nullish(c) THEN Threw("Cannot read properties of null (reading 'navigate')")
  ELSE IF c.t # "component" THEN Threw("component.navigate is not a function")
  ELSE IF c.cls = "Button"
    THEN Returned([kind |-> "Button hint", label |-> c.label])
  ELSE IF c.cls = "InputField"
    THEN Returned([kind |-> "Input hint", label |-> c.label])
  ELSE IF c.cls = "NavigationRegion"
    THEN Returned([kind |-> "Navigation hint", label |-> c.label])
  ELSE Threw("navigate() must be implemented by Custom")

\* toAuditObject(): a call on a value without the method throws.
RECURSIVE ToAuditObject(_)
ToAuditObject(c) ==
  IF c.t # "component" THEN Threw("r.toAuditObject is not a function")
  ELSE Returned([id |-> c.id, label |-> c.label, role |-> c.role,
                 children |-> [i \in 1..Len(c.children) |->
                                 ToAuditObject(c.children[i]).value],
                 state |-> c.state])

----------------------------------------------------------------------------
(* SemanticTree *)

\* A faulty order of the keys, with the navigation keys first
KeysNavFirst == <<K_nav, K_navigation, K_button, K_input, K_textbox>>

\* Object.keys(COMPONENT_MAP): the own keys in insertion order.
Keys == <<K_button, K_input, K_textbox, K_nav, K_navigation>>

\* COMPONENT_MAP[key]. COMPONENT_MAP is an object literal, so a key that is
\* not its own is looked up on Object.prototype: "constructor" is the
\* function Object and "__proto__" is Object.prototype itself; every other
\* inherited property has an upper-case letter in its name and cannot be a
\* lower-cased key.
ComponentMapGet(key) ==
  IF key = K_button THEN [cls |-> "Button", kind |-> "factory"]
  ELSE IF key = K_input \/ key = K_textbox
    THEN [cls |-> "InputField", kind |-> "factory"]
  ELSE IF key = K_nav \/ key = K_navigation
    THEN [cls |-> "NavigationRegion", kind |-> "factory"]
  ELSE IF key = K_constructor THEN [kind |-> "Object"]
  ELSE IF key = K_proto THEN [kind |-> "Object.prototype"]
  ELSE [kind |-> "undefined"]

RECURSIVE FirstKey(_, _)
FirstKey(lower, i) ==
  IF i > Len(Keys) THEN lower
  ELSE IF Includes(lower, Keys[i]) THEN Keys[i]
  ELSE FirstKey(lower, i + 1)

\* _resolveKey(name = ""): the default applies to undefined alone; any other
\* value that is not a string has no toLowerCase method.
ResolveKey(nm) ==
  IF nm.t = "undefined" THEN Returned(FirstKey(ToLowerCase(<<>>), 1))
  ELSE IF nm.t = "string" THEN Returned(FirstKey(ToLowerCase(nm.s), 1))
  ELSE IF nm.t = "null"
    THEN Threw("Cannot read properties of null (reading 'toLowerCase')")
  ELSE Threw("name.toLowerCase is not a function")

\* node.id, node.name, node.children of a value that passed the object test
PropId(node)       == IF node.t = "object" THEN node.id ELSE Undefined
PropName(node)     == IF node.t = "object" THEN node.name ELSE Undefined
PropChildren(node) == IF node.t = "object" THEN node.children ELSE Undefined

\* node?.id ?? "unknown"
NodeIdOrUnknown(node) ==
  IF Nullish(node) \/ Nullish(PropId(node)) THEN Str(S_unknown) ELSE PropId(node)

ParseError(node, msg) == [nodeId |-> NodeIdOrUnknown(node), message |-> msg]

\* factory(node) for the value COMPONENT_MAP[key] gave
CallFactory(factory, node) ==
  IF factory.kind = "factory" THEN
    IF factory.cls = "Button" THEN ButtonNew(PropId(node), PropName(node))
    ELSE IF factory.cls = "InputField"
      THEN InputFieldNew(PropId(node), PropName(node))
    ELSE NavigationRegionNew(PropId(node), PropName(node))
  ELSE IF factory.kind = "Object" THEN Returned(node)
  ELSE Threw("factory is not a function")

\* !node || typeof node !== "object"
NotAnObject(node) ==
  Falsy(node) \/ ~(node.t = "object" \/ node.t = "array" \/ node.t = "component")

\* What a call did is also written to a log, which the program does not
\* have: the node it was called on ("visit"), the value its factory gave
\* ("made"), the push of that value to a parent's children or to the roots
\* ("attached") and every push to this._errors ("error"), each with the
\* place of the node in the argument of build(): <<2, 1>> is the first
\* child of the second element.
Event(ev, at) == [ev |-> ev, at |-> at]
ErrorEvent(at, e) == [ev |-> "error", at |-> at, entry |-> e]

\* A faulty variant of the child loop's body whose catch block records
\* nothing and gives up the children attached so far.
ChildStepGivesUp(acc, child, at, r) ==
  IF r.threw
    THEN [acc EXCEPT !.component = [@ EXCEPT !.children = <<>>],
                     !.log = @ \o r.log]
  ELSE IF Falsy(r.value)
    THEN [acc EXCEPT !.errors = @ \o r.errors, !.log = @ \o r.log]
  ELSE [component |-> AddChild(acc.component, r.value).value,
        errors |-> acc.errors \o r.errors,
        log |-> (acc.log \o r.log) \o <<Event("attached", at)>>]

\* One pass of the child loop's body: what the try block did, or what the
\* catch block recorded. acc = [component, errors, log]; r is what
\* _parseNode(child) gave and at the place of child.
ChildStep(acc, child, at, r) ==
  IF r.threw
    THEN LET e == ParseError(child, r.message) IN
         [acc EXCEPT !.errors = (@ \o r.errors) \o <<e>>,
                     !.log = (@ \o r.log) \o <<ErrorEvent(at, e)>>]
  ELSE IF Falsy(r.value)
    THEN [acc EXCEPT !.errors = @ \o r.errors, !.log = @ \o r.log]
  ELSE LET a == AddChild(acc.component, r.value) IN
       IF a.threw
         THEN LET e == ParseError(child, a.message) IN
              [acc EXCEPT !.errors = (@ \o r.errors) \o <<e>>,
                          !.log = (@ \o r.log) \o <<ErrorEvent(at, e)>>]
         ELSE [component |-> a.value, errors |-> acc.errors \o r.errors,
               log |-> (acc.log \o r.log) \o <<Event("attached", at)>>]

\* The entry _parseNode pushes for a name without factory
Unsupported(node) ==
  [nodeId |-> IF Nullish(PropId(node)) THEN Str(S_unknown) ELSE PropId(node),
   message |-> [name |-> PropName(node),
                text |-> "Unsupported component type. Skipped."]]

\* _parseNode(node): [threw, message | value, errors, log], errors being the
\* entries the call pushed to this._errors, in order.
RECURSIVE ParseNode(_, _)
RECURSIVE ParseChildren(_, _, _, _)
ParseChildren(acc, kids, at, i) ==
  IF i > Len(kids) THEN acc
  ELSE ParseChildren(
         ChildStep(acc, kids[i], Append(at, i), ParseNode(kids[i], Append(at, i))),
         kids, at, i + 1)

ParseNode(node, at) ==
  IF NotAnObject(node)
    THEN [threw |-> TRUE, message |-> "Invalid node: expected an object.",
          errors |-> <<>>, log |-> <<Event("visit", at)>>]
  ELSE
  LET key == ResolveKey(PropName(node)) IN
  IF key.threw
    THEN [threw |-> TRUE, message |-> key.message, errors |-> <<>>,
          log |-> <<Event("visit", at)>>]
  ELSE
  LET factory == ComponentMapGet(key.value) IN
  IF factory.kind = "undefined"
    THEN [threw |-> FALSE, value |-> Null, errors |-> <<Unsupported(node)>>,
          log |-> <<Event("visit", at), ErrorEvent(at, Unsupported(node))>>]
  ELSE
  LET made == CallFactory(factory, node) IN
  IF made.threw
    THEN [threw |-> TRUE, message |-> made.message, errors |-> <<>>,
          log |-> <<Event("visit", at)>>]
  ELSE
  LET kids  == PropChildren(node)
      start == [component |-> made.value, errors |-> <<>>,
                log |-> <<Event("visit", at), Event("made", at)>>]
      done  == IF kids.t = "array" THEN ParseChildren(start, kids.items, at, 1)
               ELSE start
  IN [threw |-> FALSE, value |-> done.component, errors |-> done.errors,
      log |-> done.log]

\* One pass of build's loop body. tree = [roots, errors, log].
RootStep(tree, node, at, r) ==
  IF r.threw
    THEN LET e == ParseError(node, r.message) IN
         [tree EXCEPT !.errors = (@ \o r.errors) \o <<e>>,
                      !.log = (@ \o r.log) \o <<ErrorEvent(at, e)>>]
  ELSE IF Falsy(r.value)
    THEN [tree EXCEPT !.errors = @ \o r.errors, !.log = @ \o r.log]
  ELSE [roots |-> Append(tree.roots, r.value), errors |-> tree.errors \o r.errors,
        log |-> (tree.log \o r.log) \o <<Event("attached", at)>>]

RECURSIVE BuildLoop(_, _, _)
BuildLoop(tree, items, i) ==
  IF i > Len(items) THEN tree
  ELSE BuildLoop(RootStep(tree, items[i], <<i>>, ParseNode(items[i], <<i>>)),
                 items, i + 1)

\* Faulty variants of the reset, which the properties of repeated builds
\* must tell from the real one: one keeps the old errors, one the old roots.
BuildResetKeepsErrors(tree) ==
  [roots |-> <<>>, errors |-> tree.errors, log |-> <<>>]
BuildResetKeepsRoots(tree) ==
  [roots |-> tree.roots, errors |-> <<>>, log |-> <<>>]

\* this._roots = []; this._errors = [];
BuildReset(tree) == [roots |-> <<>>, errors |-> <<>>, log |-> <<>>]

\* A faulty variant of build() that empties the tree before it tests its
\* argument.
BuildCallResetFirst(tree, arg) ==
  IF arg.t # "array"
    THEN [threw |-> TRUE, roots |-> <<>>, errors |-> <<>>, log |-> <<>>]
    ELSE LET built == BuildLoop(BuildReset(tree), arg.items, 1) IN
         [threw |-> FALSE, roots |-> built.roots, errors |-> built.errors,
          log |-> built.log]

\* build(arg) on a tree [roots, errors]: [threw, roots, errors, log]
BuildCall(tree, arg) ==
  IF arg.t # "array"
    THEN [threw |-> TRUE, roots |-> tree.roots, errors |-> tree.errors,
          log |-> <<>>]
    ELSE LET built == BuildLoop(BuildReset(tree), arg.items, 1) IN
         [threw |-> FALSE, roots |-> built.roots, errors |-> built.errors,
          log |-> built.log]

\* new SemanticTree()
NewTree == [roots |-> <<>>, errors |-> <<>>]

\* getRoots(), getErrors(): copies of the two arrays
GetRoots(tree) == [i \in 1..Len(tree.roots) |-> tree.roots[i]]
GetErrors(tree) == [i \in 1..Len(tree.errors) |-> tree.errors[i]]

----------------------------------------------------------------------------
(* ScreenReaderService *)

\* component.describe() on any value: the line as the parts its template
\* is filled with. Custom is the one class that keeps UIComponent's body.
Describe(c) ==
  IF Nullish(c) THEN Threw("Cannot read properties of null (reading 'describe')")
  ELSE IF c.t # "component" THEN Threw("component.describe is not a function")
  ELSE IF c.cls = "Button"
    THEN Returned([kind |-> "Button", label |-> c.label,
                   disabled |-> ~Falsy(GetState(c, "disabled"))])
  ELSE IF c.cls = "InputField"
    THEN Returned([kind |-> "Input field", label |-> c.label,
                   inputType |-> c.inputType,
                   required |-> ~Falsy(GetState(c, "required"))])
  ELSE IF c.cls = "NavigationRegion"
    THEN Returned([kind |-> "Navigation region", label |-> c.label,
                   count |-> Len(c.children)])
  ELSE Threw("describe() must be implemented by Custom")

\* `[Screen reader error for component: ${e.message}]`
ReaderPlaceholder(msg) == [kind |-> "Screen reader error", message |-> msg]

\* _traverse(component, output): the try block holds the push of the line
\* and the loop over the children, so a throw of describe() leaves the loop
\* undone. A call of _traverse itself never throws.
RECURSIVE Traverse(_, _)
RECURSIVE TraverseAll(_, _, _)
\* A faulty variant of the loops over roots and children that ends at
\* the first component whose describe() throws
TraverseAllStops(cs, output, i) ==
  IF i > Len(cs) \/ (i > 1 /\ Describe(cs[i - 1]).threw) THEN output
  ELSE TraverseAll(cs, Traverse(cs[i], output), i + 1)

TraverseAll(cs, output, i) ==
  IF i > Len(cs) THEN output
  ELSE TraverseAll(cs, Traverse(cs[i], output), i + 1)

Traverse(component, output) ==
  LET line == Describe(component) IN
  IF line.threw THEN Append(output, ReaderPlaceholder(line.message))
  ELSE TraverseAll(component.children, Append(output, line.value), 1)

\* A faulty variant without the check of the argument, for which a value
\* that is not an array holds no component
GenerateReadingOrderUnchecked(arg) ==
  Returned(TraverseAll(IF arg.t = "array" THEN arg.items ELSE <<>>, <<>>, 1))

\* generateReadingOrder(roots)
GenerateReadingOrderCall(arg) ==
  IF arg.t # "array"
    THEN Threw("generateReadingOrder expects an array of UIComponents.")
    ELSE Returned(TraverseAll(arg.items, <<>>, 1))

----------------------------------------------------------------------------
(* KeyboardNavigator *)

\* { label: "unknown", hint: `[Navigation error: ${e.message}]` }
TabPlaceholder(msg) ==
  [label |-> Str(S_unknown),
   hint |-> [kind |-> "Navigation error", message |-> msg]]

\* _collect(component, order): the try block holds the reading of the
\* state, the push of the entry and the loop over the children. A call of
\* _collect itself never throws.
RECURSIVE Collect(_, _)
RECURSIVE CollectAll(_, _, _)
CollectAll(cs, ord, i) ==
  IF i > Len(cs) THEN ord
  ELSE CollectAll(cs, Collect(cs[i], ord), i + 1)

Collect(component, ord) ==
  IF Nullish(component)
    THEN Append(ord, TabPlaceholder(
                       "Cannot read properties of null (reading 'getState')"))
  ELSE IF component.t # "component"
    THEN Append(ord, TabPlaceholder("component.getState is not a function"))
  ELSE IF Falsy(GetState(component, "focusable"))
    THEN CollectAll(component.children, ord, 1)
  ELSE LET hint == Navigate(component) IN
       IF hint.threw THEN Append(ord, TabPlaceholder(hint.message))
       ELSE CollectAll(component.children,
                       Append(ord, [label |-> component.label,
                                    hint |-> hint.value]), 1)

\* buildTabOrder(roots)
BuildTabOrderCall(arg) ==
  IF arg.t # "array"
    THEN Threw("buildTabOrder expects an array of UIComponents.")
    ELSE Returned(CollectAll(arg.items, <<>>, 1))

----------------------------------------------------------------------------
(* AuditService *)

\* A faulty variant of trim() that removes nothing
TrimNothing(s) == s

\* String.prototype.trim, the blank being the white space of the model
RECURSIVE TrimStart(_)
TrimStart(s) ==
  IF s # <<>> /\ Head(s) = " " THEN TrimStart(Tail(s)) ELSE s
RECURSIVE TrimEnd(_)
TrimEnd(s) ==
  IF s # <<>> /\ s[Len(s)] = " " THEN TrimEnd(SubSeq(s, 1, Len(s) - 1)) ELSE s
Trim(s) == TrimEnd(TrimStart(s))

\* !v || v.trim() === "": a truthy value that is not a string has no trim
BlankTest(v) ==
  IF Falsy(v) THEN Returned(TRUE)
  ELSE IF v.t = "string" THEN Returned(Trim(v.s) = <<>>)
  ELSE Threw("trim is not a function")

\* RULES, by id in table order
RULES == <<"LABEL_EMPTY", "ROLE_PRESENT", "FOCUSABLE_BUTTON">>

\* rule.check(c) on a component: the issue, or null
RuleCheck(rule, c) ==
  IF rule = "LABEL_EMPTY" THEN
    LET blank == BlankTest(c.label) IN
    IF blank.threw THEN blank
    ELSE IF blank.value THEN Returned([id |-> c.id, rule |-> rule])
    ELSE Returned(Null)
  ELSE IF rule = "ROLE_PRESENT" THEN
    LET blank == BlankTest(c.role) IN
    IF blank.threw THEN blank
    ELSE IF blank.value
      THEN Returned([id |-> c.id, label |-> c.label, rule |-> rule])
    ELSE Returned(Null)
  ELSE IF c.role = Str(K_button) /\ Falsy(GetState(c, "focusable"))
    THEN Returned([id |-> c.id, label |-> c.label, rule |-> rule])
  ELSE Returned(Null)

\* `[AUDIT_ERROR] Unexpected error auditing component: ${e.message}`
AuditError(msg) == [message |-> msg, rule |-> "AUDIT_ERROR"]

RECURSIVE CheckRules(_, _, _)
\* A faulty variant of the loop over RULES that leaves the loop at the
\* first issue
CheckRulesStopsAtIssue(c, res, i) ==
  IF i > Len(RULES) THEN [threw |-> FALSE, value |-> res]
  ELSE LET issue == RuleCheck(RULES[i], c) IN
       IF issue.threw
         THEN [threw |-> TRUE, message |-> issue.message, value |-> res]
       ELSE IF issue.value = Null
         THEN CheckRules(c, [res EXCEPT !.passed =
                               Append(@, [label |-> c.label, rule |-> RULES[i]])],
                         i + 1)
       ELSE [threw |-> FALSE,
             value |-> [res EXCEPT !.failed = Append(@, issue.value)]]

\* The loop over RULES for one component, from rule i on: the entries
\* pushed, and whether a check threw. res = [passed, failed].
CheckRules(c, res, i) ==
  IF i > Len(RULES) THEN [threw |-> FALSE, value |-> res]
  ELSE LET issue == RuleCheck(RULES[i], c) IN
       IF issue.threw
         THEN [threw |-> TRUE, message |-> issue.message, value |-> res]
       ELSE IF issue.value = Null
         THEN CheckRules(c, [res EXCEPT !.passed =
                               Append(@, [label |-> c.label, rule |-> RULES[i]])],
                         i + 1)
       ELSE CheckRules(c, [res EXCEPT !.failed = Append(@, issue.value)], i + 1)

\* _auditComponent(component, passed, failed): the try block holds the loop
\* over the rules and the loop over the children. A call of _auditComponent
\* itself never throws.
RECURSIVE AuditComponent(_, _)
RECURSIVE AuditAll(_, _, _)
AuditAll(cs, res, i) ==
  IF i > Len(cs) THEN res
  ELSE AuditAll(cs, AuditComponent(cs[i], res), i + 1)

AuditComponent(component, res) ==
  IF Nullish(component)
    THEN [res EXCEPT !.failed = Append(@, AuditError(
            "Cannot read properties of null (reading 'getLabel')"))]
  ELSE IF component.t # "component"
    THEN [res EXCEPT !.failed = Append(@, AuditError("c.getLabel is not a function"))]
  ELSE LET checked == CheckRules(component, res, 1) IN
       IF checked.threw
         THEN [checked.value EXCEPT !.failed = Append(@, AuditError(checked.message))]
         ELSE AuditAll(component.children, checked.value, 1)

\* runAudit(roots)
RunAuditCall(arg) ==
  IF arg.t # "array" THEN Threw("runAudit expects an array of UIComponents.")
  ELSE Returned(AuditAll(arg.items, [passed |-> <<>>, failed |-> <<>>], 1))

----------------------------------------------------------------------------
(* Inputs of build() *)

N_SubmitButton  == <<"S","u","b","m","i","t"," ","B","u","t","t","o","n">>
N_EmailInput    == <<"E","m","a","i","l"," ","I","n","p","u","t">>
N_MainNav       == <<"M","a","i","n"," ","N","a","v">>
N_UnknownWidget == <<"U","n","k","n","o","w","n","W","i","d","g","e","t">>

\* Raw nodes that carry a children array: a button, a navigation region, an
\* unrecognised name, the name "constructor", a button with an empty id.
SlotShapes ==
  { [id |-> Str(<<"b","1">>), name |-> Str(N_SubmitButton)],
    [id |-> Str(<<"n","1">>), name |-> Str(N_MainNav)],
    [id |-> Str(<<"x","1">>), name |-> Str(N_UnknownWidget)],
    [id |-> Str(<<"c","1">>), name |-> Str(K_constructor)],
    [id |-> Str(<<>>),        name |-> Str(N_SubmitButton)] }

\* Elements without a children array: null, a number, an input field, an
\* input field without id, a node whose name is null.
LeafNodes ==
  { Null,
    Num(5),
    RawNode(Str(<<"i","1">>), Str(N_EmailInput), Undefined),
    RawNode(Undefined, Str(N_EmailInput), Undefined),
    RawNode(Str(<<"p","1">>), Null, Undefined) }

\* The largest number of raw nodes in one build() argument
MaxNodes == 3

\* An array of n raw nodes is written down in document order: depth[i] is
\* how deep node i lies (0 for an element of the array) and shape[i] what it
\* is. A node's children are the nodes after it that lie one level deeper,
\* up to the next node that does not lie deeper than it.
DepthProfiles(n) ==
  {d \in [1..n -> 0..n] :
     \A i \in 1..n : d[i] <= (IF i = 1 THEN 0 ELSE d[i - 1] + 1)}

\* The last node of the subtree that starts at node i
SubtreeEnd(d, i, hi) ==
  IF \E j \in (i + 1)..hi : d[j] <= d[i]
    THEN (CHOOSE j \in (i + 1)..hi :
            d[j] <= d[i] /\ \A m \in (i + 1)..(j - 1) : d[m] > d[i]) - 1
    ELSE hi

HasSlot(sh) == "t" \notin DOMAIN sh

\* Only a node with a children array has nodes below it.
WellShaped(shape, d, n) ==
  \A i \in 1..n : (i < n /\ d[i + 1] > d[i]) => HasSlot(shape[i])

RECURSIVE Decode(_, _, _, _)
Decode(shape, d, i, hi) ==
  IF i > hi THEN <<>>
  ELSE LET last == SubtreeEnd(d, i, hi)
           node == IF HasSlot(shape[i])
                     THEN RawNode(shape[i].id, shape[i].name,
                                  Arr(Decode(shape, d, i + 1, last)))
                     ELSE shape[i]
       IN <<node>> \o Decode(shape, d, last + 1, hi)

\* Arguments of build() that are not arrays: undefined, null, a string, {}
NonArrays ==
  {Undefined, Null, Str(<<"b","a","d">>), RawNode(Undefined, Undefined, Undefined)}

----------------------------------------------------------------------------
(* The tree's life *)

Init ==
  /\ roots = <<>>
  /\ errors = <<>>
  /\ nodes = Undefined
  /\ outcome = "none"
  /\ prior = "none"
  /\ log = <<>>
  /\ passRoots = Undefined
  /\ reading = <<>>
  /\ passOutcome = "none"
  /\ order = <<>>
  /\ tabOutcome = "none"
  /\ audit = [passed |-> <<>>, failed |-> <<>>]
  /\ auditOutcome = "none"
  /\ heap = <<>>
  /\ snap = Undefined
  /\ call = Undefined
  /\ calls = 0
  /\ pc = "idle"
  /\ btnDisabled = FALSE
  /\ statusText = <<>>
  /\ resultsHidden = TRUE
  /\ resultsHTML = <<>>
  /\ response = Undefined
  /\ trace = <<>>

\* tree.build(arg)
Build(arg) ==
  \E r \in {BuildCall([roots |-> roots, errors |-> errors], arg)} :
  /\ roots' = r.roots
  /\ errors' = r.errors
  /\ nodes' = arg
  /\ outcome' = IF r.threw THEN "threw" ELSE "returned"
  /\ log' = r.log
  /\ prior' = IF roots = <<>> /\ errors = <<>> THEN "empty"
              ELSE IF outcome = "returned" /\ arg = nodes THEN "same"
              ELSE "other"
  /\ UNCHANGED <<popVars, passVars, compVars>>

\* One build() on a new tree, over every array of at most MaxNodes nodes
BuildOnce ==
  /\ outcome = "none"
  /\ \E n \in 0..MaxNodes : \E d \in DepthProfiles(n) :
       \E shape \in [1..n -> SlotShapes \cup LeafNodes] :
         /\ WellShaped(shape, d, n)
         /\ Build(Arr(Decode(shape, d, 1, n)))

BuildOnceNonArray ==
  /\ outcome = "none"
  /\ \E arg \in NonArrays : Build(arg)

NextOnce == BuildOnce \/ BuildOnceNonArray

SpecOnce == Init /\ [][NextOnce]_vars

\* Repeated calls on one tree take their arrays from a smaller set: null, a
\* childless node named "constructor", a button and an unrecognised name, at
\* most MaxSeqNodes nodes an array.
MaxSeqNodes == 2

SeqShapes ==
  { Null,
    RawNode(Str(<<"c","1">>), Str(K_constructor), Undefined),
    [id |-> Str(<<"b","1">>), name |-> Str(N_SubmitButton)],
    [id |-> Str(<<"x","1">>), name |-> Str(N_UnknownWidget)] }

SeqArrays ==
  UNION { { Arr(Decode(p[1], p[2], 1, n)) :
              p \in { q \in [1..n -> SeqShapes] \X DepthProfiles(n) :
                        WellShaped(q[1], q[2], n) } }
          : n \in 0..MaxSeqNodes }

BuildArray == \E arg \in SeqArrays : Build(arg)

BuildNonArray == \E arg \in NonArrays : Build(arg)

Next == BuildArray \/ BuildNonArray

Spec == Init /\ [][Next]_vars

\* Classification alone: one build() of one node with id "k1" and no
\* children, over the names made of at most MaxFrags fragments and over
\* names that are not strings.
MaxFrags == 2

Fragments ==
  { K_button, <<"B","u","t","t","o","n">>, <<"B","U","T">>, <<"T","O","N">>,
    K_input, <<"I","n","p","u","t">>, K_textbox, K_nav, <<"N","a","v">>,
    <<"i","g","a","t","i","o","n">>, <<" ">>, <<"x">>, K_constructor }

RECURSIVE Concat(_, _)
Concat(fs, i) == IF i > Len(fs) THEN <<>> ELSE fs[i] \o Concat(fs, i + 1)

ClassifyName ==
  /\ outcome = "none"
  /\ \E n \in 0..MaxFrags : \E fs \in [1..n -> Fragments] :
       Build(Arr(<<RawNode(Str(<<"k","1">>), Str(Concat(fs, 1)), Undefined)>>))

ClassifyOther ==
  /\ outcome = "none"
  /\ \E nm \in {Undefined, Null, Num(7)} :
       Build(Arr(<<RawNode(Str(<<"k","1">>), nm, Undefined)>>))

NextKey == ClassifyName \/ ClassifyOther

SpecKey == Init /\ [][NextKey]_vars

----------------------------------------------------------------------------
(* Inputs and life of the reading-order pass (SpecPasses) *)

\* The largest number of components in one argument of a pass
MaxComps == 3

\* The three classes and a subclass without describe() and navigate(), as
\* constructed, and components changed after construction: a button with
\* focusable set to false, a Custom with focusable set to true, a button
\* whose label was overwritten with blanks, a button constructed with the
\* number 5 as its label.
CompKinds ==
  {"Button", "InputField", "NavigationRegion", "Custom",
   "ButtonOff", "CustomFocusable", "ButtonBlank", "ButtonNum"}

Digits == <<"1","2","3","4","5","6","7","8","9">>

\* new Kind("c<i>", "L<i>") and the change made to it
NewComp(kind, i) ==
  LET id == Str(<<"c", Digits[i]>>)
      label == Str(<<"L", Digits[i]>>)
  IN
  IF kind = "Button" THEN ButtonNew(id, label)
  ELSE IF kind = "InputField" THEN InputFieldNew(id, label)
  ELSE IF kind = "NavigationRegion" THEN NavigationRegionNew(id, label)
  ELSE IF kind = "Custom" THEN CustomNew(id, label)
  ELSE IF kind = "ButtonOff"
    THEN Returned(SetState(ButtonNew(id, label).value, "focusable", Bool(FALSE)))
  ELSE IF kind = "CustomFocusable"
    THEN Returned(SetState(CustomNew(id, label).value, "focusable", Bool(TRUE)))
  ELSE IF kind = "ButtonBlank"
    THEN Returned(ForceLabel(ButtonNew(id, label).value, Str(<<" ", " ", " ">>)))
  ELSE ButtonNew(id, Num(5))

\* parent.addChild(kid) for every kid in turn
RECURSIVE AddAll(_, _, _)
AddAll(parent, kids, j) ==
  IF j > Len(kids) THEN parent
  ELSE AddAll(AddChild(parent, kids[j]).value, kids, j + 1)

\* The forest of components written down by kinds and depths in document
\* order, built with the constructors and addChild
RECURSIVE Assemble(_, _, _, _)
Assemble(kinds, d, i, hi) ==
  IF i > hi THEN <<>>
  ELSE LET last == SubtreeEnd(d, i, hi)
           comp == AddAll(NewComp(kinds[i], i).value,
                          Assemble(kinds, d, i + 1, last), 1)
       IN <<comp>> \o Assemble(kinds, d, last + 1, hi)

\* service.generateReadingOrder(arg)
GenerateReadingOrder(arg) ==
  \E r \in {GenerateReadingOrderCall(arg)} :
    /\ passRoots' = arg
    /\ reading' = IF r.threw THEN <<>> ELSE r.value
    /\ passOutcome' = IF r.threw THEN "threw" ELSE "returned"
    /\ UNCHANGED <<popVars, buildVars, compVars, order, tabOutcome, audit, auditOutcome>>

\* navigator.buildTabOrder(arg)
BuildTabOrder(arg) ==
  \E r \in {BuildTabOrderCall(arg)} :
    /\ passRoots' = arg
    /\ order' = IF r.threw THEN <<>> ELSE r.value
    /\ tabOutcome' = IF r.threw THEN "threw" ELSE "returned"
    /\ UNCHANGED <<popVars, buildVars, compVars, reading, passOutcome, audit, auditOutcome>>

\* service.runAudit(arg)
RunAudit(arg) ==
  \E r \in {RunAuditCall(arg)} :
    /\ passRoots' = arg
    /\ audit' = IF r.threw THEN [passed |-> <<>>, failed |-> <<>>] ELSE r.value
    /\ auditOutcome' = IF r.threw THEN "threw" ELSE "returned"
    /\ UNCHANGED <<popVars, buildVars, compVars, reading, passOutcome, order, tabOutcome>>

\* Each behaviour makes one call of one pass.
NoPassYet ==
  passOutcome = "none" /\ tabOutcome = "none" /\ auditOutcome = "none"

ReadForest ==
  /\ NoPassYet
  /\ \E n \in 0..MaxComps : \E d \in DepthProfiles(n) :
       \E kinds \in [1..n -> CompKinds] :
         GenerateReadingOrder(Arr(Assemble(kinds, d, 1, n)))

ReadNonArray ==
  /\ NoPassYet
  /\ \E arg \in NonArrays : GenerateReadingOrder(arg)

TabForest ==
  /\ NoPassYet
  /\ \E n \in 0..MaxComps : \E d \in DepthProfiles(n) :
       \E kinds \in [1..n -> CompKinds] :
         BuildTabOrder(Arr(Assemble(kinds, d, 1, n)))

TabNonArray ==
  /\ NoPassYet
  /\ \E arg \in NonArrays : BuildTabOrder(arg)

AuditForest ==
  /\ NoPassYet
  /\ \E n \in 0..MaxComps : \E d \in DepthProfiles(n) :
       \E kinds \in [1..n -> CompKinds] :
         RunAudit(Arr(Assemble(kinds, d, 1, n)))

AuditNonArray ==
  /\ NoPassYet
  /\ \E arg \in NonArrays : RunAudit(arg)

NextPasses ==
  \/ ReadForest \/ ReadNonArray
  \/ TabForest \/ TabNonArray
  \/ AuditForest \/ AuditNonArray

SpecPasses == Init /\ [][NextPasses]_vars

----------------------------------------------------------------------------
(* The three passes over the same roots (SpecTogether) *)

\* A faulty variant of a pass that leaves a mark in the state of every root
MarkedRoots(arg) ==
  IF arg.t # "array" THEN arg
  ELSE Arr([i \in 1..Len(arg.items) |->
              SetState(arg.items[i], "focusable", Bool(FALSE))])

\* The roots after a pass. _traverse, _collect and _auditComponent call
\* describe(), navigate(), getState(), getLabel(), getId(), getRole() and
\* getChildren() and push to the array of their own call; none assigns a
\* field of a component, and the three services have no fields.
AfterTraverse(arg) == arg
AfterCollect(arg) == arg
AfterAudit(arg) == arg

\* The kinds of the shared roots: components on which every pass works, on
\* which describe() and navigate() throw, and on which a rule check throws
SharedKinds ==
  {"Button", "NavigationRegion", "Custom", "CustomFocusable", "ButtonNum"}

\* The state before the first pass: roots that some caller holds
InitTogether ==
  /\ roots = <<>>
  /\ errors = <<>>
  /\ nodes = Undefined
  /\ outcome = "none"
  /\ prior = "none"
  /\ log = <<>>
  /\ \E n \in 0..MaxComps : \E d \in DepthProfiles(n) :
       \E kinds \in [1..n -> SharedKinds] :
         passRoots = Arr(Assemble(kinds, d, 1, n))
  /\ reading = <<>>
  /\ passOutcome = "none"
  /\ order = <<>>
  /\ tabOutcome = "none"
  /\ audit = [passed |-> <<>>, failed |-> <<>>]
  /\ auditOutcome = "none"
  /\ heap = <<>>
  /\ snap = Undefined
  /\ call = Undefined
  /\ calls = 0
  /\ pc = "idle"
  /\ btnDisabled = FALSE
  /\ statusText = <<>>
  /\ resultsHidden = TRUE
  /\ resultsHTML = <<>>
  /\ response = Undefined
  /\ trace = <<>>

\* service.generateReadingOrder(roots) on the roots as they are now
ReadShared ==
  /\ passOutcome = "none"
  /\ \E r \in {GenerateReadingOrderCall(passRoots)} :
       /\ reading' = IF r.threw THEN <<>> ELSE r.value
       /\ passOutcome' = IF r.threw THEN "threw" ELSE "returned"
       /\ passRoots' = AfterTraverse(passRoots)
       /\ UNCHANGED <<popVars, buildVars, compVars, order, tabOutcome, audit, auditOutcome>>

\* navigator.buildTabOrder(roots) on the roots as they are now
TabShared ==
  /\ tabOutcome = "none"
  /\ \E r \in {BuildTabOrderCall(passRoots)} :
       /\ order' = IF r.threw THEN <<>> ELSE r.value
       /\ tabOutcome' = IF r.threw THEN "threw" ELSE "returned"
       /\ passRoots' = AfterCollect(passRoots)
       /\ UNCHANGED <<popVars, buildVars, compVars, reading, passOutcome, audit, auditOutcome>>

\* service.runAudit(roots) on the roots as they are now
AuditShared ==
  /\ auditOutcome = "none"
  /\ \E r \in {RunAuditCall(passRoots)} :
       /\ audit' = IF r.threw THEN [passed |-> <<>>, failed |-> <<>>] ELSE r.value
       /\ auditOutcome' = IF r.threw THEN "threw" ELSE "returned"
       /\ passRoots' = AfterAudit(passRoots)
       /\ UNCHANGED <<popVars, buildVars, compVars, reading, passOutcome, order, tabOutcome>>

NextTogether == ReadShared \/ TabShared \/ AuditShared

SpecTogether == InitTogether /\ [][NextTogether]_vars

----------------------------------------------------------------------------
(* FigmaClient.extractNodes (SpecExtract) *)

\* v.key for a value that is not null or undefined: the property of an
\* object that has it, undefined otherwise
Get(v, key) ==
  IF v.t = "object" /\ key \in DOMAIN v THEN v[key] ELSE Undefined

\* v?.key
OptionalGet(v, key) == IF Nullish(v) THEN Undefined ELSE Get(v, key)

\* A faulty variant that reads the path without the optional chaining and
\* has the catch block throw
ExtractNodesStrict(fileData) ==
  IF Nullish(fileData) \/ Nullish(Get(fileData, "document"))
    THEN Threw("Malformed Figma file data: could not extract nodes.")
  ELSE LET c == Get(Get(fileData, "document"), "children") IN
       Returned(IF Nullish(c) THEN Arr(<<>>) ELSE c)

\* extractNodes(fileData): fileData?.document?.children ?? []
ExtractNodes(fileData) ==
  LET c == OptionalGet(OptionalGet(fileData, "document"), "children") IN
  Returned(IF Nullish(c) THEN Arr(<<>>) ELSE c)

\* Values that are not objects, and objects without the property looked for
Scalars ==
  {Undefined, Null, Num(0), Num(5), Str(<<>>), Str(<<"b","a","d">>),
   Bool(FALSE), Bool(TRUE)}
NoProperty == [t |-> "object"]

\* What a document may hold as its children: no array, or an array of at
\* most MaxSeqNodes nodes
ChildrenValues ==
  Scalars \cup {RawNode(Str(<<"b","1">>), Str(N_SubmitButton), Undefined)} \cup SeqArrays

\* What the API may answer as the file: { document: { children } } and the
\* values that lack a part of it
FileDatas ==
  Scalars \cup {NoProperty}
  \cup {[t |-> "object", document |-> d] : d \in Scalars \cup {NoProperty}}
  \cup {[t |-> "object", document |-> [t |-> "object", children |-> c]] :
          c \in ChildrenValues}

\* The state before the call: a client that holds some file data
InitExtract ==
  /\ roots = <<>>
  /\ errors = <<>>
  /\ nodes = Undefined
  /\ outcome = "none"
  /\ prior = "none"
  /\ log = <<>>
  /\ passRoots = Undefined
  /\ reading = <<>>
  /\ passOutcome = "none"
  /\ order = <<>>
  /\ tabOutcome = "none"
  /\ audit = [passed |-> <<>>, failed |-> <<>>]
  /\ auditOutcome = "none"
  /\ heap = <<>>
  /\ snap = Undefined
  /\ call = Undefined
  /\ calls = 0
  /\ pc = "idle"
  /\ btnDisabled = FALSE
  /\ statusText = <<>>
  /\ resultsHidden = TRUE
  /\ resultsHTML = <<>>
  /\ response \in FileDatas
  /\ trace = <<>>

\* client.extractNodes(fileData) on the file data held
ExtractOnce ==
  /\ calls = 0
  /\ \E r \in {ExtractNodes(response)} :
       /\ call' = IF r.threw
                    THEN [threw |-> TRUE, message |-> r.message,
                          op |-> "extractNodes", arg |-> response]
                    ELSE [threw |-> FALSE, value |-> r.value,
                          op |-> "extractNodes", arg |-> response]
       /\ calls' = 1
       /\ UNCHANGED <<popVars, buildVars, passVars, heap, snap>>

SpecExtract == InitExtract /\ [][ExtractOnce]_vars

----------------------------------------------------------------------------
(* The click handler of the popup (SpecPopup) *)

\* tokenInput.value and fileInput.value: empty, blank, or some text
InputValues == {<<>>, <<" ">>, <<"t">>}

\* How the request of fetchFile may end: fetch() rejects, or the API
\* answers with a status
Rejected == [t |-> "rejected"]
Status(n) == [t |-> "response", n |-> n]
Responses == {Rejected, Status(200), Status(403), Status(404), Status(500)}

\* A body that response.json() cannot parse
Unparsable == [t |-> "unparsable"]

\* tabOrder.map((t, i) => `${i + 1}. ${t.hint}`)
TabLines(tabOrder) ==
  [i \in 1..Len(tabOrder) |-> [n |-> i, hint |-> tabOrder[i].hint]]

\* How far the try block got: the steps it completed and the message of
\* what was thrown
Stopped(steps, msg) == [threw |-> TRUE, message |-> msg, log |-> steps]

\* A faulty variant of the try block that goes on to render when build()
\* has thrown
AfterFetchRendersAnyway(fileData) ==
  LET got == ExtractNodes(fileData).value
      built == BuildCall(NewTree, got)
      rts   == Arr(GetRoots(built))
  IN [threw |-> FALSE,
      value |-> <<GenerateReadingOrderCall(rts).value,
                  TabLines(BuildTabOrderCall(rts).value),
                  RunAuditCall(rts).value.passed,
                  RunAuditCall(rts).value.failed, GetErrors(built)>>,
      log |-> IF built.threw THEN <<"extract", "render">>
              ELSE <<"extract", "build", "read", "tab", "audit", "render">>,
      count |-> Len(rts.items)]

\* The try block from extractNodes on: extractNodes, build, getRoots, the
\* three passes, then the five sections renderResults is called with.
AfterFetch(fileData) ==
  LET got == ExtractNodes(fileData) IN
  IF got.threw THEN Stopped(<<>>, got.message)
  ELSE
  LET built == BuildCall(NewTree, got.value) IN
  IF built.threw
    THEN Stopped(<<"extract">>, "SemanticTree.build() expects an array of nodes.")
  ELSE
  LET rts == Arr(GetRoots(built))
      rd == GenerateReadingOrderCall(rts)
  IN
  IF rd.threw THEN Stopped(<<"extract", "build">>, rd.message)
  ELSE
  LET tb == BuildTabOrderCall(rts) IN
  IF tb.threw THEN Stopped(<<"extract", "build", "read">>, tb.message)
  ELSE
  LET au == RunAuditCall(rts) IN
  IF au.threw THEN Stopped(<<"extract", "build", "read", "tab">>, au.message)
  ELSE [threw |-> FALSE,
        value |-> <<rd.value, TabLines(tb.value), au.value.passed,
                    au.value.failed, GetErrors(built)>>,
        log |-> <<"extract", "build", "read", "tab", "audit", "render">>,
        count |-> Len(rts.items)]

\* The catch block and the finally block
Caught(steps, msg) ==
  /\ statusText' = <<"Error", msg>>
  /\ btnDisabled' = FALSE
  /\ pc' = "idle"
  /\ trace' = (trace \o steps) \o <<"catch", "enabled">>
  /\ UNCHANGED <<resultsHidden, resultsHTML>>

\* The click: the validation of the two inputs, and the handler up to the
\* request of fetchFile
Click ==
  /\ pc = "idle"
  /\ ~btnDisabled
  /\ \E token \in InputValues, fileKey \in InputValues :
       IF Trim(token) = <<>> THEN
         /\ statusText' = <<"Please enter your Figma Personal Access Token.">>
         /\ trace' = <<>>
         /\ UNCHANGED <<pc, btnDisabled, resultsHidden, resultsHTML, response>>
       ELSE IF Trim(fileKey) = <<>> THEN
         /\ statusText' = <<"Please enter a Figma File Key.">>
         /\ trace' = <<>>
         /\ UNCHANGED <<pc, btnDisabled, resultsHidden, resultsHTML, response>>
       ELSE
         /\ btnDisabled' = TRUE
         /\ statusText' = <<"Connecting to Figma API...">>
         /\ resultsHidden' = TRUE
         /\ pc' = "fetch"
         /\ trace' = <<"disabled">>
         /\ response' = Undefined
         /\ UNCHANGED resultsHTML
  /\ UNCHANGED <<buildVars, passVars, compVars>>

\* await fetch(url, ...) settles, and the tests of the status
FetchSettles ==
  /\ pc = "fetch"
  /\ \E r \in Responses :
       /\ response' = r
       /\ IF r = Rejected THEN Caught(<<>>, "Network error reaching Figma API")
          ELSE IF r.n = 403
            THEN Caught(<<"response">>, "Figma API: Invalid or expired token.")
          ELSE IF r.n = 404
            THEN Caught(<<"response">>, "Figma API: File not found.")
          ELSE IF r.n \notin 200..299
            THEN Caught(<<"response">>, "Figma API error")
          ELSE /\ pc' = "json"
               /\ trace' = Append(trace, "response")
               /\ UNCHANGED <<btnDisabled, statusText, resultsHidden, resultsHTML>>
  /\ UNCHANGED <<buildVars, passVars, compVars>>

\* await response.json() settles, and the rest of the handler
JsonSettles ==
  /\ pc = "json"
  /\ \E body \in FileDatas \cup {Unparsable} :
       /\ response' = body
       /\ IF body = Unparsable
            THEN Caught(<<>>, "Failed to parse Figma API response")
          ELSE \E r \in {AfterFetch(body)} :
            IF r.threw THEN Caught(<<"fetch">> \o r.log, r.message)
            ELSE /\ statusText' = <<"Done", r.count, Len(r.value[3]), Len(r.value[4])>>
                 /\ resultsHidden' = FALSE
                 /\ resultsHTML' = r.value
                 /\ btnDisabled' = FALSE
                 /\ pc' = "idle"
                 /\ trace' = ((trace \o <<"fetch">>) \o r.log) \o <<"enabled">>
  /\ UNCHANGED <<buildVars, passVars, compVars>>

NextPopup == Click \/ FetchSettles \/ JsonSettles

\* A request that was made settles, and so does the reading of its body
SpecPopup ==
  Init /\ [][NextPopup]_vars /\ WF_vars(FetchSettles) /\ WF_vars(JsonSettles)

----------------------------------------------------------------------------
(* The audit of a tree as build() left it (SpecBuildAudit) *)

\* auditor.runAudit(tree.getRoots()) after a build() that returned
AuditBuilt ==
  /\ outcome = "returned"
  /\ auditOutcome = "none"
  /\ RunAudit(Arr(GetRoots([roots |-> roots, errors |-> errors])))

NextBuildAudit == BuildOnce \/ AuditBuilt

SpecBuildAudit == Init /\ [][NextBuildAudit]_vars

----------------------------------------------------------------------------
(* Calls on components that exist side by side (SpecComp) *)

\* Components have identity here: heap[k] is the k-th component made, its
\* children are the places of other components, and Ref(k) is the value
\* that refers to it.
Ref(k) == [t |-> "ref", n |-> k]
Deref(v) == IF v.t = "ref" THEN heap[v.n] ELSE v

\* The largest number of calls on components in one behaviour
MaxCalls == 5

S_a == <<"a">>
S_L == <<"L">>
S_M == <<"M">>

\* new Cls(id, label); the constructor of Custom passes the role it is given
NewByClass(cls, id, label, role) ==
  IF cls = "Button" THEN ButtonNew(id, label)
  ELSE IF cls = "InputField" THEN InputFieldNew(id, label)
  ELSE IF cls = "NavigationRegion" THEN NavigationRegionNew(id, label)
  ELSE UIComponentNew(cls, id, label, role)

NewArgs ==
  { [cls |-> "Button", id |-> Str(S_a), label |-> Str(S_L), role |-> Undefined],
    [cls |-> "Custom", id |-> Str(S_a), label |-> Str(S_L), role |-> Str(S_group)],
    [cls |-> "UIComponent", id |-> Str(S_a), label |-> Str(S_L),
     role |-> Str(K_button)],
    [cls |-> "Button", id |-> Str(<<>>), label |-> Str(S_L), role |-> Undefined],
    [cls |-> "Button", id |-> Str(S_a), label |-> Undefined, role |-> Undefined],
    [cls |-> "Custom", id |-> Str(S_a), label |-> Str(S_L), role |-> Str(<<>>)] }

\* The component calls are followed on their own: no build and no pass is
\* made in the same behaviour.
Quiet == outcome = "none" /\ NoPassYet /\ calls < MaxCalls

\* new Cls(...)
NewComponent ==
  /\ Quiet
  /\ \E a \in NewArgs :
     \E r \in {NewByClass(a.cls, a.id, a.label, a.role)} :
       /\ heap' = IF r.threw THEN heap ELSE Append(heap, r.value)
       /\ call' = [threw |-> r.threw, op |-> "new", arg |-> a]
       /\ calls' = calls + 1
       /\ UNCHANGED <<popVars, buildVars, passVars, snap>>

\* heap[o].setLabel(label)
CallSetLabel ==
  /\ Quiet
  /\ \E o \in 1..Len(heap) :
     \E label \in {Str(S_M), Str(<<>>), Null, Str(<<" ">>)} :
     \E r \in {SetLabel(heap[o], label)} :
       /\ heap' = IF r.threw THEN heap ELSE [heap EXCEPT ![o] = r.value]
       /\ call' = [threw |-> r.threw, op |-> "setLabel", owner |-> o, arg |-> label]
       /\ calls' = calls + 1
       /\ UNCHANGED <<popVars, buildVars, passVars, snap>>

\* heap[o].setState("focusable", val)
CallSetState ==
  /\ Quiet
  /\ \E o \in 1..Len(heap) : \E val \in {Bool(TRUE), Bool(FALSE)} :
       /\ heap' = [heap EXCEPT ![o] = SetState(@, "focusable", val)]
       /\ call' = [threw |-> FALSE, op |-> "setState", owner |-> o, arg |-> val]
       /\ calls' = calls + 1
       /\ UNCHANGED <<popVars, buildVars, passVars, snap>>

\* heap[o].addChild(v), v a component or another value: what is pushed to
\* this._children is the component itself, here its place.
CallAddChild ==
  /\ Quiet
  /\ \E o \in 1..Len(heap) :
     \E v \in {Ref(k) : k \in 1..Len(heap)}
               \cup {Null, Undefined, Str(S_a),
                     RawNode(Str(S_a), Str(K_button), Undefined)} :
     \E r \in {AddChild(heap[o], Deref(v))} :
       /\ heap' = IF r.threw THEN heap
                  ELSE IF v.t = "ref"
                    THEN [heap EXCEPT ![o].children = Append(@, v.n)]
                  ELSE [heap EXCEPT ![o].children = Append(@, v)]
       /\ call' = [threw |-> r.threw, op |-> "addChild", owner |-> o, arg |-> v]
       /\ calls' = calls + 1
       /\ UNCHANGED <<popVars, buildVars, passVars, snap>>

\* A faulty variant of getChildren() that returns this._children itself
GetChildrenNoCopy(o) == [items |-> heap[o].children, owner |-> o, alias |-> o]

\* getChildren(): [...this._children], a new array; alias is the component
\* whose own array the returned array is, 0 for none.
GetChildrenCall(o) == [items |-> heap[o].children, owner |-> o, alias |-> 0]

\* snap = heap[o].getChildren()
CallGetChildren ==
  /\ Quiet
  /\ \E o \in 1..Len(heap) :
       /\ snap' = GetChildrenCall(o)
       /\ call' = [threw |-> FALSE, op |-> "getChildren", owner |-> o, arg |-> Undefined]
       /\ calls' = calls + 1
       /\ UNCHANGED <<popVars, buildVars, passVars, heap>>

\* snap.push(c), snap.pop(), snap.reverse() on the returned array
Mutated(items, how) ==
  IF how = "push" THEN Append(items, 1)
  ELSE IF how = "pop"
    THEN (IF items = <<>> THEN items ELSE SubSeq(items, 1, Len(items) - 1))
  ELSE [i \in 1..Len(items) |-> items[Len(items) + 1 - i]]

MutateSnapshot ==
  /\ Quiet
  /\ snap # Undefined
  /\ \E how \in {"push", "pop", "reverse"} :
       /\ snap' = [snap EXCEPT !.items = Mutated(@, how)]
       /\ heap' = IF snap.alias = 0 THEN heap
                  ELSE [heap EXCEPT ![snap.alias].children = Mutated(@, how)]
       /\ call' = [threw |-> FALSE, op |-> "mutate", owner |-> snap.owner,
                   arg |-> Undefined]
       /\ calls' = calls + 1
       /\ UNCHANGED <<popVars, buildVars, passVars>>

\* A build() on a new tree, in a behaviour without calls on components
BuildAlone == calls = 0 /\ outcome = "none" /\ BuildArray

NextComp ==
  \/ NewComponent \/ CallSetLabel \/ CallSetState \/ CallAddChild
  \/ CallGetChildren \/ MutateSnapshot \/ BuildAlone

SpecComp == Init /\ [][NextComp]_vars

----------------------------------------------------------------------------
(* Arrays that getRoots() and getErrors() returned (SpecTaken) *)

\* The largest number of calls of getRoots() and getErrors() and of writes
\* to what they returned in one behaviour
MaxTaken == 2

\* A faulty variant of getRoots() that returns this._roots itself
TakeRootsNoCopy(tree) ==
  [items |-> tree.roots, owner |-> "roots", alias |-> "roots"]

\* getRoots() and getErrors() as the caller holds what they return: the
\* array, which accessor gave it, and which array of the tree it is, none
\* for [...this._roots] and [...this._errors]
TakeRoots(tree) == [items |-> GetRoots(tree), owner |-> "roots", alias |-> "none"]
TakeErrors(tree) ==
  [items |-> GetErrors(tree), owner |-> "errors", alias |-> "none"]

\* taken = tree.getRoots() or taken = tree.getErrors()
CallTake ==
  /\ calls < MaxTaken
  /\ \E r \in {TakeRoots([roots |-> roots, errors |-> errors]),
                 TakeErrors([roots |-> roots, errors |-> errors])} :
       /\ snap' = r
       /\ call' = [threw |-> FALSE, op |-> "take", owner |-> r.owner]
  /\ calls' = calls + 1
  /\ UNCHANGED <<popVars, buildVars, passVars, heap>>

\* taken.push(null), taken.pop(), taken.reverse()
WriteTaken ==
  /\ calls < MaxTaken
  /\ snap # Undefined
  /\ \E how \in {"push", "pop", "reverse"} :
     \E after \in {IF how = "push" THEN Append(snap.items, Null)
                   ELSE Mutated(snap.items, how)} :
       /\ snap' = [snap EXCEPT !.items = after]
       /\ roots' = IF snap.alias = "roots" THEN after ELSE roots
       /\ errors' = IF snap.alias = "errors" THEN after ELSE errors
       /\ call' = [threw |-> FALSE, op |-> "write", owner |-> snap.owner]
  /\ calls' = calls + 1
  /\ UNCHANGED <<popVars, passVars, heap, nodes, outcome, prior, log>>

\* The arguments of build() here: no node, one button, a button and a
\* node that fails, a button in a navigation region, and null
TakenInputs ==
  { Arr(<<>>),
    Arr(<<RawNode(Str(<<"b","1">>), Str(N_SubmitButton), Undefined)>>),
    Arr(<<RawNode(Str(<<"b","1">>), Str(N_SubmitButton), Undefined),
          RawNode(Str(<<"x","1">>), Str(N_UnknownWidget), Undefined)>>),
    Arr(<<RawNode(Str(<<"n","1">>), Str(N_MainNav),
                  Arr(<<RawNode(Str(<<"b","1">>), Str(N_SubmitButton),
                                Undefined)>>))>>),
    Null }

BuildTaken == \E arg \in TakenInputs : Build(arg)

NextTaken == BuildTaken \/ CallTake \/ WriteTaken

SpecTaken == Init /\ [][NextTaken]_vars

----------------------------------------------------------------------------
(* One build, node by node (SpecOnce) *)

\* The raw node at a place of the argument
RECURSIVE NodeAt(_, _)
NodeAt(items, at) ==
  IF Len(at) = 1 THEN items[at[1]]
  ELSE NodeAt(items[at[1]].children.items, Tail(at))

\* The places _parseNode was called on
Visited == {log[i].at : i \in {j \in 1..Len(log) : log[j].ev = "visit"}}

Count(ev, at) ==
  Cardinality({i \in 1..Len(log) : log[i].ev = ev /\ log[i].at = at})

ErrorsAt(at) == {i \in 1..Len(log) : log[i].ev = "error" /\ log[i].at = at}

\* What the log holds about the nodes strictly below a place
Below(at) ==
  {i \in 1..Len(log) :
     Len(log[i].at) > Len(at) /\ SubSeq(log[i].at, 1, Len(at)) = at}

IsError(e) == e.ev = "error"
LoggedErrors ==
  [i \in 1..Len(SelectSeq(log, IsError)) |-> SelectSeq(log, IsError)[i].entry]

\* The vocabulary of section 4.2, and a name that holds one of its words in
\* some mix of cases
Vocabulary == {K_button, K_input, K_textbox, K_nav, K_navigation}

HoldsWord(s, w) ==
  \E i \in 1..(Len(s) - Len(w) + 1) :
    \A j \in 1..Len(w) : LowerChar(s[i + j - 1]) = w[j]

NameMatches(node) ==
  /\ node.name.t = "string"
  /\ \E w \in Vocabulary : HoldsWord(node.name.s, w)

\* The three ways a node fails, and the one way it succeeds
Invalid(node) == node.t # "object"
Unrecognised(node) == node.t = "object" /\ ~NameMatches(node)
ConstructionFails(node) ==
  node.t = "object" /\ NameMatches(node) /\ Falsy(node.id)
Succeeds(node) == node.t = "object" /\ NameMatches(node) /\ ~Falsy(node.id)

Attached(at) == Count("attached", at) = 1
Parent(at) == SubSeq(at, 1, Len(at) - 1)

\* The place in the result of what was made from the node at a place whose
\* ancestors were all attached
Rank(at) ==
  Cardinality({j \in 1..at[Len(at)] : Attached(Append(Parent(at), j))})
InResult(at) == \A k \in 1..Len(at) : Attached(SubSeq(at, 1, k))
RECURSIVE ResultAt(_)
ResultAt(at) ==
  IF Len(at) = 1 THEN roots[Rank(at)]
  ELSE ResultAt(Parent(at)).children[Rank(at)]

\* C1: build() of an array returns, and a node that fails shows only as an
\* entry of the errors: it has an entry and is attached nowhere, the errors
\* are the entries recorded, and every root is a component.
C1_ArrayBuildOnlyRecordsErrors ==
  (outcome # "none" /\ nodes.t = "array")
    => /\ outcome = "returned"
       /\ errors = LoggedErrors
       /\ \A at \in Visited :
            ~Succeeds(NodeAt(nodes.items, at))
              => Count("error", at) = 1 /\ ~Attached(at)
       /\ \A i \in 1..Len(roots) : roots[i].t = "component"

\* C3: a visited node whose name holds no word of the vocabulary makes
\* nothing, has exactly one error entry, which carries its id, and nothing
\* below it is visited, made, attached or reported.
C3_UnrecognisedNameDropsSubtree ==
  outcome = "returned"
    => \A at \in Visited :
         \E node \in {NodeAt(nodes.items, at)} :
           Unrecognised(node)
             => /\ Count("made", at) = 0
                /\ ~Attached(at)
                /\ Count("error", at) = 1
                /\ \A i \in ErrorsAt(at) :
                     ~Nullish(node.id) => log[i].entry.nodeId = node.id
                /\ Below(at) = {}

\* C4: under a parent that is a component, a child that fails has exactly
\* one error entry and is not attached, a child that succeeds is attached
\* without an entry, the parent is made (and is a root when it is a top-level
\* node), and a parent in the result has the succeeding children, in their
\* order, as its children.
C4_FailingChildIsolated ==
  outcome = "returned"
    => \A q \in Visited :
         \E parent \in {NodeAt(nodes.items, q)} :
           (Succeeds(parent) /\ parent.children.t = "array")
             => \E kids \in {parent.children.items} :
                  /\ Count("made", q) = 1
                  /\ Len(q) = 1 => Attached(q)
                  /\ \A k \in 1..Len(kids) :
                       IF Succeeds(kids[k])
                         THEN /\ Attached(Append(q, k))
                              /\ Count("error", Append(q, k)) = 0
                         ELSE /\ ~Attached(Append(q, k))
                              /\ Count("error", Append(q, k)) = 1
                  /\ InResult(q)
                       => \E got \in {ResultAt(q).children} :
                          \E ok \in {SelectSeq(kids, Succeeds)} :
                            /\ Len(got) = Len(ok)
                            /\ \A i \in 1..Len(ok) :
                                 /\ got[i].id = ok[i].id
                                 /\ got[i].label = ok[i].name

\* A root with two children in the argument, the first failing and the
\* second attached
C4_Witness ==
  /\ outcome = "returned"
  /\ Len(roots) = 1
  /\ Count("error", <<1, 1>>) = 1
  /\ Attached(<<1, 2>>)
  /\ Len(roots[1].children) = 1

\* C5: a visited node whose name holds a word of the vocabulary and whose
\* id is empty or missing makes nothing, has exactly one error entry, and
\* nothing below it is visited or reported.
C5_ConstructionFailureDropsSubtree ==
  outcome = "returned"
    => \A at \in Visited :
         ConstructionFails(NodeAt(nodes.items, at))
           => /\ Count("made", at) = 0
              /\ ~Attached(at)
              /\ Count("error", at) = 1
              /\ Below(at) = {}

\* A node with an empty id and a button's name that has children
C5_Witness ==
  /\ outcome = "returned"
  /\ \E at \in Visited :
       \E node \in {NodeAt(nodes.items, at)} :
         /\ ConstructionFails(node)
         /\ node.children.t = "array"
         /\ node.children.items # <<>>
         /\ Count("error", at) = 1

\* C7: the roots are the components of the top-level nodes that succeed, in
\* their order, and with the failing top-level nodes they number as many as
\* the argument has elements.
C7_RootsAreSucceedingTopLevel ==
  outcome = "returned"
    => \E ok \in {SelectSeq(nodes.items, Succeeds)} :
         /\ Len(roots) = Len(ok)
         /\ \A i \in 1..Len(ok) :
              /\ roots[i].t = "component"
              /\ roots[i].id = ok[i].id
              /\ roots[i].label = ok[i].name
         /\ Len(roots) + Cardinality({i \in 1..Len(nodes.items) :
                                        ~Succeeds(nodes.items[i])})
              = Len(nodes.items)

----------------------------------------------------------------------------
(* Repeated builds on one tree (Spec) *)

\* The tree as getRoots() and getErrors() show it
Shown(rs, es) ==
  <<GetRoots([roots |-> rs, errors |-> es]), GetErrors([roots |-> rs, errors |-> es])>>

\* C2: a build() call whose argument is not an array throws, and getRoots()
\* and getErrors() return after the call what they returned before it.
C2_NonArrayThrowsAndKeepsState ==
  [][nodes'.t # "array"
       => /\ outcome' = "threw"
          /\ Shown(roots', errors') = Shown(roots, errors)]_vars

\* A build() call that threw on a tree that held both roots and errors
C2_Witness ==
  /\ outcome = "threw"
  /\ nodes.t # "array"
  /\ prior = "other"
  /\ roots # <<>>
  /\ errors # <<>>

\* C8: whatever the tree held before, after build(B) returned it holds the
\* roots and the errors that a new SemanticTree holds after build(B).
C8_BuildDiscardsPrevious ==
  outcome = "returned"
    => \E fresh \in {BuildCall(NewTree, nodes)} :
         /\ ~fresh.threw
         /\ Shown(roots, errors) = Shown(fresh.roots, fresh.errors)

\* build(B) returned on a tree that held the roots or errors of another
\* call, and left fewer roots and errors than two nodes give.
C8_Witness ==
  /\ outcome = "returned"
  /\ prior = "other"
  /\ Len(nodes.items) = 1
  /\ Len(roots) + Len(errors) = 1

\* r.toAuditObject() of every root, a throw included
Serialized(rs) == [i \in 1..Len(rs) |-> ToAuditObject(rs[i])]

\* C9: a build() call with the argument of the call before it, both
\* returning, leaves roots with the same toAuditObject() serializations and
\* the same sequence of errors.
C9_BuildIdempotent ==
  [][(outcome = "returned" /\ outcome' = "returned" /\ nodes' = nodes)
       => /\ Serialized(roots') = Serialized(roots)
          /\ errors' = errors]_vars

\* The second of two equal calls returned, leaving a root and an error.
C9_Witness ==
  /\ outcome = "returned"
  /\ prior = "same"
  /\ \E i \in 1..Len(roots) : roots[i].t = "component"
  /\ errors # <<>>

----------------------------------------------------------------------------
(* Classification (SpecKey) *)

\* C6: the class of the component built from a name is decided by the words
\* the name holds in any mix of cases: "button" gives a Button whatever else
\* the name holds; "input" or "textbox" without "button" gives an
\* InputField, also beside "nav"; "nav" without the earlier words gives a
\* NavigationRegion; and a component is built from such names alone.
C6_FirstVocabularyWordWins ==
  (outcome = "returned" /\ Len(nodes.items) = 1
     /\ nodes.items[1].t = "object" /\ ~Falsy(nodes.items[1].id))
    => \E nm \in {nodes.items[1].name} :
       \E built \in {IF Len(roots) = 1 /\ roots[1].t = "component"
                       THEN roots[1].cls ELSE "none"} :
         /\ built # "none" => NameMatches(nodes.items[1])
         /\ nm.t = "string" =>
              \E isButton \in {HoldsWord(nm.s, K_button)} :
              \E isInput \in {HoldsWord(nm.s, K_input) \/ HoldsWord(nm.s, K_textbox)} :
              \E isNav \in {HoldsWord(nm.s, K_nav)} :
                /\ isButton => built = "Button"
                /\ (isInput /\ ~isButton) => built = "InputField"
                /\ (isNav /\ ~isInput /\ ~isButton) => built = "NavigationRegion"

\* An InputField built from a name that holds "nav" before "input" in
\* capitals
C6_Witness ==
  /\ outcome = "returned"
  /\ Len(roots) = 1
  /\ roots[1].t = "component"
  /\ roots[1].cls = "InputField"
  /\ nodes.items[1].name = Str(<<"N","a","v","I","n","p","u","t">>)

----------------------------------------------------------------------------
(* Reading order (SpecPasses) *)

\* The number of components in a forest
RECURSIVE Components(_, _)
Components(cs, i) ==
  IF i > Len(cs) THEN 0
  ELSE 1 + Components(cs[i].children, 1) + Components(cs, i + 1)

\* The line of each component, its parent's before it and its children's
\* in their order after it; the placeholder stands for the line of a
\* component whose describe() throws.
RECURSIVE PreOrderLines(_, _)
PreOrderLines(cs, i) ==
  IF i > Len(cs) THEN <<>>
  ELSE (<<IF Describe(cs[i]).threw
             THEN ReaderPlaceholder(Describe(cs[i]).message)
             ELSE Describe(cs[i]).value>>
         \o PreOrderLines(cs[i].children, 1))
       \o PreOrderLines(cs, i + 1)

\* C10: generateReadingOrder returns one line for each component of the
\* forest, in pre-order.
C10_ReadingOrderIsPreOrder ==
  (passOutcome = "returned" /\ passRoots.t = "array")
    => /\ Len(reading) = Components(passRoots.items, 1)
       /\ reading = PreOrderLines(passRoots.items, 1)

----------------------------------------------------------------------------
(* The three passes, component by component (SpecPasses) *)

\* The components of a forest in pre-order
RECURSIVE Flatten(_, _)
Flatten(cs, i) ==
  IF i > Len(cs) THEN <<>>
  ELSE (<<cs[i]>> \o Flatten(cs[i].children, 1)) \o Flatten(cs, i + 1)

\* In a pre-order sequence, the places below place k
Size(c) == 1 + Components(c.children, 1)
Under(all, k) == (k + 1)..(k + Size(all[k]) - 1)

HowMany(seq, Test(_)) == Len(SelectSeq(seq, Test))

DescribeFails(c) == Describe(c).threw
IsReaderPlaceholder(line) == line.kind = "Screen reader error"
LineOf(c) ==
  IF Describe(c).threw THEN ReaderPlaceholder(Describe(c).message)
  ELSE Describe(c).value

\* C11: for a component whose describe() throws the output has one
\* placeholder (as many placeholders as such components), and every
\* component below it has its line in the output.
C11_FailedDescribeKeepsDescendants ==
  (passOutcome = "returned" /\ passRoots.t = "array")
    => \E all \in {Flatten(passRoots.items, 1)} :
         \A k \in 1..Len(all) :
           DescribeFails(all[k])
             => /\ HowMany(reading, IsReaderPlaceholder)
                     = HowMany(all, DescribeFails)
                /\ \A d \in Under(all, k) :
                     \E i \in 1..Len(reading) : reading[i] = LineOf(all[d])

\* The entry of the tab order that stands for a focusable component
IsFocusable(c) == ~Falsy(GetState(c, "focusable"))
NavigateFails(c) == IsFocusable(c) /\ Navigate(c).threw
IsTabPlaceholder(e) == e.hint.kind = "Navigation error"
TabEntryOf(c) ==
  IF Navigate(c).threw THEN TabPlaceholder(Navigate(c).message)
  ELSE [label |-> c.label, hint |-> Navigate(c).value]

\* C12: the tab order is the pre-order sequence of the components restricted
\* to those whose focusable state is truthy, one entry for each.
C12_TabOrderIsFocusableReadingOrder ==
  (tabOutcome = "returned" /\ passRoots.t = "array")
    => \E focus \in {SelectSeq(Flatten(passRoots.items, 1), IsFocusable)} :
         /\ Len(order) = Len(focus)
         /\ \A i \in 1..Len(focus) : order[i] = TabEntryOf(focus[i])

\* C13: for a component whose collection throws the tab order has one
\* placeholder (as many placeholders as such components), and every
\* focusable component below it has its entry in the tab order.
C13_FailedCollectKeepsDescendants ==
  (tabOutcome = "returned" /\ passRoots.t = "array")
    => \E all \in {Flatten(passRoots.items, 1)} :
         \A k \in 1..Len(all) :
           NavigateFails(all[k])
             => /\ HowMany(order, IsTabPlaceholder) = HowMany(all, NavigateFails)
                /\ \A d \in Under(all, k) :
                     IsFocusable(all[d])
                       => \E i \in 1..Len(order) : order[i] = TabEntryOf(all[d])

\* The evaluations of the audit: every rule, in table order, for every
\* component, in pre-order
AuditFails(c) == \E r \in 1..Len(RULES) : RuleCheck(RULES[r], c).threw
RECURSIVE Evaluations(_, _, _)
Evaluations(all, k, r) ==
  IF k > Len(all) THEN <<>>
  ELSE IF r > Len(RULES) THEN Evaluations(all, k + 1, 1)
  ELSE <<[component |-> all[k], rule |-> RULES[r]]>> \o Evaluations(all, k, r + 1)

Passes(ev) == RuleCheck(ev.rule, ev.component).value = Null
Issues(ev) == ~Passes(ev)

\* C14: for a forest of N components none of whose checks throws, the audit
\* has N times 3 entries, one for every evaluation: passed holds the
\* evaluations without issue and failed the issues, both in the order of
\* the evaluations.
C14_AuditEvaluatesEveryRule ==
  (auditOutcome = "returned" /\ passRoots.t = "array")
    => \E all \in {Flatten(passRoots.items, 1)} :
         (\A k \in 1..Len(all) : ~AuditFails(all[k]))
           => \E evs \in {Evaluations(all, 1, 1)} :
              \E ok \in {SelectSeq(evs, Passes)} :
              \E bad \in {SelectSeq(evs, Issues)} :
                /\ Len(audit.passed) + Len(audit.failed) = Len(all) * 3
                /\ Len(audit.passed) = Len(ok)
                /\ \A i \in 1..Len(ok) :
                     audit.passed[i] = [label |-> ok[i].component.label,
                                        rule |-> ok[i].rule]
                /\ Len(audit.failed) = Len(bad)
                /\ \A i \in 1..Len(bad) :
                     audit.failed[i] = RuleCheck(bad[i].rule, bad[i].component).value

\* An audit of three components, one below another, with an issue
C14_Witness ==
  /\ auditOutcome = "returned"
  /\ passRoots.t = "array"
  /\ Len(passRoots.items) = 2
  /\ Len(passRoots.items[1].children) = 1
  /\ \A k \in 1..3 : ~AuditFails(Flatten(passRoots.items, 1)[k])
  /\ Len(audit.passed) = 8
  /\ Len(audit.failed) = 1

IsAuditError(e) == e.rule = "AUDIT_ERROR"

\* C15: a component whose audit throws has one AUDIT_ERROR entry and no
\* other entry, and every other component, also below it, has its three
\* entries.
C15_FailedAuditKeepsDescendants ==
  (auditOutcome = "returned" /\ passRoots.t = "array")
    => \E all \in {Flatten(passRoots.items, 1)} :
         (\E k \in 1..Len(all) : AuditFails(all[k]))
           => /\ HowMany(audit.failed, IsAuditError) = HowMany(all, AuditFails)
              /\ Len(audit.passed) + Len(audit.failed)
                   = HowMany(all, AuditFails)
                     + 3 * (Len(all) - HowMany(all, AuditFails))

\* A button whose label is all blanks
BlankLabel == Str(<<" ", " ", " ">>)
IsBlankButton(c) == c.cls = "Button" /\ c.label = BlankLabel

----------------------------------------------------------------------------
(* Components side by side, call by call (SpecComp) *)

\* The step is a call on a component
IsCall(op) == calls' # calls /\ call'.op = op

\* The classes whose constructor passes on the role it is given
TakesRole(cls) == cls \notin {"Button", "InputField", "NavigationRegion"}

NonEmptyFields(c) == ~Falsy(c.id) /\ ~Falsy(c.label) /\ ~Falsy(c.role)

\* C17: after every call on a component (construction, setLabel, setState,
\* addChild, getChildren) every component that exists has a non-empty id,
\* label and role; a construction with an empty id, label or role throws and
\* makes no component; a setLabel with an empty value throws and leaves the
\* label as it was; and no call changes the id or the role of a component.
C17_IdLabelRoleStayNonEmpty ==
  [][ /\ \A o \in 1..Len(heap') : NonEmptyFields(heap'[o])
      /\ Len(heap') >= Len(heap)
      /\ \A o \in 1..Len(heap) :
           heap'[o].id = heap[o].id /\ heap'[o].role = heap[o].role
      /\ ( /\ IsCall("new")
           /\ \/ Falsy(call'.arg.id)
              \/ Falsy(call'.arg.label)
              \/ TakesRole(call'.arg.cls) /\ Falsy(call'.arg.role) )
         => call'.threw /\ heap' = heap
      /\ (IsCall("setLabel") /\ Falsy(call'.arg))
         => call'.threw /\ heap' = heap
      /\ (IsCall("setLabel") /\ ~Falsy(call'.arg))
         => ~call'.threw /\ heap'[call'.owner].label = call'.arg
    ]_vars

\* A relabelled component refused an empty label afterwards
C17_Witness ==
  /\ calls > 0
  /\ call.op = "setLabel"
  /\ call.threw
  /\ heap[call.owner].label = Str(S_M)
  /\ heap[call.owner].children # <<>>


\* The components a component holds, and those it reaches through them
Kids(o) == {heap[o].children[i] : i \in DOMAIN heap[o].children}
RECURSIVE DescendantsWithin(_, _)
DescendantsWithin(o, n) ==
  IF n = 0 THEN {}
  ELSE Kids(o) \cup UNION {DescendantsWithin(k, n - 1) : k \in Kids(o)}
Descendants(o) == DescendantsWithin(o, Len(heap))

\* The places where component k is held: <<parent, position>>
Holders(k) ==
  {<<o, i>> \in (1..Len(heap)) \X (1..MaxCalls) :
     i <= Len(heap[o].children) /\ heap[o].children[i] = k}

\* C18: after any sequence of addChild calls no component is among its own
\* descendants, and every component is held at most once: by at most one
\* parent, at one position of that parent's children.
C18_ComponentsFormTree ==
  \A o \in 1..Len(heap) :
    /\ o \notin Descendants(o)
    /\ Cardinality(Holders(o)) <= 1



\* The visited places below a component where the factory gave a value
\* that is not a component
RejectedPlaces ==
  {at \in Visited :
     /\ Len(at) > 1
     /\ Succeeds(NodeAt(nodes.items, Parent(at)))
     /\ Count("made", at) = 1
     /\ ~Succeeds(NodeAt(nodes.items, at))}

\* What the builder did about the addChild calls that threw: build()
\* returned, and each is one entry of the error list with the id of the
\* child and the message of addChild, the value being attached nowhere.
RejectionsBecomeParseErrors ==
  /\ outcome # "threw"
  /\ \A at \in RejectedPlaces :
       /\ Count("attached", at) = 0
       /\ \E i \in 1..Len(log) :
            /\ ErrorsAt(at) = {i}
            /\ log[i].entry =
                 [nodeId |-> NodeIdOrUnknown(NodeAt(nodes.items, at)),
                  message |-> "Child must be a UIComponent instance."]
            /\ \E j \in 1..Len(errors) : errors[j] = log[i].entry

\* C19: addChild(v) for a value v that is not a component throws and leaves
\* every child list as it was, while a component is appended to the
\* receiver's children; and when the addChild call of the builder throws,
\* build() returns and the error list holds one Parse Error for that child.
C19_AddChildRejectsNonComponents ==
  [][ /\ (IsCall("addChild") /\ call'.arg.t # "ref")
         => call'.threw /\ heap' = heap
      /\ (IsCall("addChild") /\ call'.arg.t = "ref")
         => /\ ~call'.threw
            /\ heap' = [heap EXCEPT ![call'.owner].children =
                                       Append(@, call'.arg.n)]
      /\ RejectionsBecomeParseErrors'
    ]_vars

\* A component that holds a child refused a value that is not a component
C19_Witness ==
  /\ calls > 0
  /\ call.op = "addChild"
  /\ call.threw
  /\ call.arg.t = "object"
  /\ heap[call.owner].children # <<>>

\* A build in which the addChild call of the builder threw
BuilderRejection == outcome = "returned" /\ RejectedPlaces # {}



\* C20: getChildren() returns the receiver's children in their order and
\* changes no component; a push, pop or reversal of the returned array
\* changes no component either, so that getChildren() on the same component
\* gives after the write what it gave before it.
C20_GetChildrenReturnsCopy ==
  [][ /\ IsCall("getChildren")
         => /\ heap' = heap
            /\ snap'.items = heap[call'.owner].children
      /\ IsCall("mutate")
         => /\ heap' = heap
            /\ GetChildrenCall(snap.owner)'.items
                 = GetChildrenCall(snap.owner).items
    ]_vars

\* The returned array of a component with children was written to and now
\* differs from the children of that component
C20_Witness ==
  /\ calls > 0
  /\ call.op = "mutate"
  /\ heap[snap.owner].children # <<>>
  /\ snap.items # heap[snap.owner].children


----------------------------------------------------------------------------
(* The three passes in any order over the same roots (SpecTogether) *)

\* toAuditObject() of every root
SerializedRoots(arg) ==
  [i \in 1..Len(arg.items) |-> ToAuditObject(arg.items[i]).value]

----------------------------------------------------------------------------
(* The passes on their own, once more (SpecPasses) *)

\* C22: generateReadingOrder, buildTabOrder and runAudit called with a value
\* that is not an array throw, and the caller holds no output of that call:
\* no line, no tab entry, no audit entry.
C22_NonArrayAbortsPass ==
  passRoots.t # "array" =>
    /\ passOutcome # "none" => passOutcome = "threw" /\ reading = <<>>
    /\ tabOutcome # "none" => tabOutcome = "threw" /\ order = <<>>
    /\ auditOutcome # "none" =>
         /\ auditOutcome = "threw"
         /\ audit.passed = <<>> /\ audit.failed = <<>>

\* A pass was called with a string
C22_Witness ==
  /\ passRoots.t = "string"
  /\ passOutcome = "threw"


\* What makes a pass fail on a component, and the entries a component on
\* which it does not fail has in the output of the pass
FailsIn(pass, c) ==
  IF pass = "read" THEN DescribeFails(c)
  ELSE IF pass = "tab" THEN NavigateFails(c)
  ELSE AuditFails(c)

HasEntries(pass, c) ==
  IF pass = "read"
    THEN \E i \in 1..Len(reading) : reading[i] = Describe(c).value
  ELSE IF pass = "tab"
    THEN IsFocusable(c)
           => \E i \in 1..Len(order) :
                order[i] = [label |-> c.label, hint |-> Navigate(c).value]
  ELSE \A r \in 1..Len(RULES) :
         \E v \in {RuleCheck(RULES[r], c).value} :
           IF v = Null
             THEN \E i \in 1..Len(audit.passed) :
                    audit.passed[i] = [label |-> c.label, rule |-> RULES[r]]
             ELSE \E i \in 1..Len(audit.failed) : audit.failed[i] = v

\* The components a pass is called on (those without failing ancestor) on
\* which it fails
RECURSIVE Failures(_, _, _)
Failures(pass, cs, i) ==
  IF i > Len(cs) THEN 0
  ELSE IF FailsIn(pass, cs[i]) THEN 1 + Failures(pass, cs, i + 1)
  ELSE Failures(pass, cs[i].children, 1) + Failures(pass, cs, i + 1)

\* Among the roots and among the children of every component on which the
\* pass did not fail, a component that follows a failing one has its entries
RECURSIVE SiblingsGoOn(_, _)
SiblingsGoOn(pass, cs) ==
  \A i \in 1..Len(cs) :
    ~FailsIn(pass, cs[i])
      => /\ (\E j \in 1..(i - 1) : FailsIn(pass, cs[j])) => HasEntries(pass, cs[i])
         /\ SiblingsGoOn(pass, cs[i].children)

\* C23: a pass called with an array returns, whatever fails on the way; it
\* has one placeholder for every component it failed on; and every root and
\* every child that comes after a component the pass failed on, among the
\* same roots or the same children, has its own entries in the output.
C23_FailureLeavesSiblings ==
  passRoots.t = "array" =>
    /\ passOutcome # "none" =>
         /\ passOutcome = "returned"
         /\ HowMany(reading, IsReaderPlaceholder)
              = Failures("read", passRoots.items, 1)
         /\ SiblingsGoOn("read", passRoots.items)
    /\ tabOutcome # "none" =>
         /\ tabOutcome = "returned"
         /\ HowMany(order, IsTabPlaceholder) = Failures("tab", passRoots.items, 1)
         /\ SiblingsGoOn("tab", passRoots.items)
    /\ auditOutcome # "none" =>
         /\ auditOutcome = "returned"
         /\ HowMany(audit.failed, IsAuditError)
              = Failures("audit", passRoots.items, 1)
         /\ SiblingsGoOn("audit", passRoots.items)

\* The first root made the reading-order pass fail and the second root has
\* its line, after the placeholder
C23_Witness ==
  /\ passOutcome = "returned"
  /\ passRoots.t = "array"
  /\ Len(passRoots.items) = 2
  /\ DescribeFails(passRoots.items[1])
  /\ passRoots.items[1].children # <<>>
  /\ ~DescribeFails(passRoots.items[2])
  /\ reading = <<LineOf(passRoots.items[1]), LineOf(passRoots.items[2])>>


----------------------------------------------------------------------------
(* extractNodes, value by value (SpecExtract) *)

\* The file data, its document or the children of its document is absent:
\* null, undefined, or a property that the value before it does not have
PathAbsent(fileData) ==
  \/ Nullish(fileData)
  \/ fileData.t # "object"
  \/ "document" \notin DOMAIN fileData
  \/ Nullish(fileData.document)
  \/ fileData.document.t # "object"
  \/ "children" \notin DOMAIN fileData.document
  \/ Nullish(fileData.document.children)

\* C25: extractNodes returns, and never throws; it returns an empty array
\* when the file data, its document or the children of the document is
\* absent, and the value of fileData.document.children itself otherwise.
C25_ExtractNodesDefaultsToEmpty ==
  calls = 1 =>
    /\ ~call.threw
    /\ PathAbsent(call.arg) => call.value = Arr(<<>>)
    /\ ~PathAbsent(call.arg) => call.value = call.arg.document.children

\* The call was made on file data without document
C25_Witness ==
  /\ calls = 1
  /\ call.op = "extractNodes"
  /\ call.arg = NoProperty
  /\ call.value = Arr(<<>>)


----------------------------------------------------------------------------
(* The popup, click by click (SpecPopup) *)

Has(step) == \E i \in 1..Len(trace) : trace[i] = step

\* Every step of a click that ends with the results
AllSteps ==
  <<"disabled", "response", "fetch", "extract", "build", "read", "tab",
    "audit", "render", "enabled">>

\* C24: renderResults is called only as the last step before the button is
\* enabled again, after the request, the reading of its body, extractNodes,
\* build and the three passes, and then with all five sections; the results
\* are hidden from the click until then; a click in which a step throws ends
\* with the results hidden and a status that starts with Error; and a
\* disabled button is enabled again.
C24_RenderOnlyAfterAllSteps ==
  /\ [](Has("render") =>
          /\ trace = AllSteps
          /\ ~resultsHidden
          /\ Len(resultsHTML) = 5
          /\ resultsHTML = AfterFetch(response).value)
  /\ []((trace # <<>> /\ ~Has("render")) => resultsHidden)
  /\ [](Has("catch") =>
          /\ ~Has("render")
          /\ statusText[1] = "Error"
          /\ ~btnDisabled)
  /\ [](btnDisabled <=> pc # "idle")
  /\ (btnDisabled ~> ~btnDisabled)

\* A click whose build() threw, made when the results of an earlier click
\* were on display
C24_Witness ==
  /\ Has("catch")
  /\ Has("extract")
  /\ ~Has("build")
  /\ resultsHTML # <<>>
  /\ resultsHidden
  /\ ~btnDisabled


----------------------------------------------------------------------------
(* One build, its result against its input (SpecOnce) *)

\* Every value of a result, at every depth, is a Button, an InputField or a
\* NavigationRegion
RECURSIVE OnlyComponents(_)
OnlyComponents(xs) ==
  \A i \in 1..Len(xs) :
    /\ xs[i].t = "component"
    /\ xs[i].cls \in {"Button", "InputField", "NavigationRegion"}
    /\ OnlyComponents(xs[i].children)

\* The components of a result, values that are not components left out
RECURSIVE ComponentCount(_, _)
ComponentCount(xs, i) ==
  IF i > Len(xs) THEN 0
  ELSE IF xs[i].t # "component" THEN ComponentCount(xs, i + 1)
  ELSE 1 + ComponentCount(xs[i].children, 1) + ComponentCount(xs, i + 1)

\* C26: after build() every root and every descendant of a root is a Button,
\* an InputField or a NavigationRegion, and what stands in the result for a
\* raw node has the id of that node as its id and its name as its label.
C26_ResultHoldsOnlyBuiltComponents ==
  outcome = "returned"
    => /\ OnlyComponents(roots)
       /\ \A at \in Visited :
            InResult(at)
              => /\ ResultAt(at).id = NodeAt(nodes.items, at).id
                 /\ ResultAt(at).label = NodeAt(nodes.items, at).name

\* C27: every element of the argument and every child of a node that gave a
\* component is visited and gives either one component of the result or one
\* Parse Error, never both and never neither, so that the components of the
\* result and the Parse Errors together number as many as these nodes.
C27_OneOutcomePerVisitedNode ==
  outcome = "returned"
    => /\ \A at \in Visited :
            (Len(at) = 1 \/ InResult(Parent(at)))
              => \/ /\ Count("error", at) = 0
                    /\ Attached(at)
                    /\ ResultAt(at).t = "component"
                 \/ /\ Count("error", at) = 1
                    /\ ~Attached(at)
       /\ \A at \in Visited : Len(at) = 1 \/ InResult(Parent(at))
       /\ ComponentCount(roots, 1) + Len(errors) = Cardinality(Visited)

\* In a pre-order walk place a comes before place b
PreOrderBefore(a, b) ==
  \/ Len(a) < Len(b) /\ SubSeq(b, 1, Len(a)) = a
  \/ \E k \in 1..Len(a) :
       /\ k <= Len(b)
       /\ SubSeq(a, 1, k - 1) = SubSeq(b, 1, k - 1)
       /\ a[k] < b[k]

\* C29: getErrors() holds the Parse Errors in the order in which build()
\* recorded them, and of two failing nodes the one that comes first in a
\* pre-order walk of the argument has its Parse Error recorded first.
C29_ErrorsInPreOrder ==
  outcome = "returned"
    => /\ errors = LoggedErrors
       /\ \A i, j \in 1..Len(log) :
            (i < j /\ log[i].ev = "error" /\ log[j].ev = "error")
              => PreOrderBefore(log[i].at, log[j].at)


----------------------------------------------------------------------------
(* The audit of a built tree (SpecBuildAudit) *)

\* C28: runAudit on the roots of a tree that build() made and nothing has
\* changed since returns with no failure: failed is empty and passed has
\* three entries for every component of the tree.
C28_BuiltTreePassesAudit ==
  auditOutcome # "none"
    => /\ auditOutcome = "returned"
       /\ audit.failed = <<>>
       /\ Len(audit.passed) = 3 * ComponentCount(roots, 1)


----------------------------------------------------------------------------
(* Builds and taken arrays, step by step (SpecTaken) *)

\* C30: getRoots() and getErrors() return what the tree holds and change
\* nothing; a write to a returned array changes neither the tree nor what
\* getRoots() and getErrors() return afterwards; and a build(), whether it
\* returns or throws, leaves an array returned earlier as it was.
C30_TakenArraysAreIsolated ==
  [][ /\ (calls' # calls /\ call'.op = "take")
         => /\ snap'.items = (IF snap'.owner = "roots" THEN roots ELSE errors)
            /\ roots' = roots /\ errors' = errors
      /\ (calls' # calls /\ call'.op = "write")
         => /\ roots' = roots /\ errors' = errors
            /\ Shown(roots', errors') = Shown(roots, errors)
      /\ calls' = calls => snap' = snap
    ]_vars

\* An array that getRoots() returned was written to, and a build() that
\* threw was made on the tree, which still holds what the array held
C30_Witness ==
  /\ calls = MaxTaken
  /\ call.op = "write"
  /\ snap.owner = "roots"
  /\ outcome = "threw"
  /\ roots # <<>>
  /\ snap.items = Append(roots, Null)


=============================================================================
